---- MODULE Spec2Model ----
(***************************************************************************)
(* Model of blade's ninja rule generator (src/blade/backend.py).           *)
(*                                                                         *)
(* _NinjaFileHeaderGenerator accumulates text lines in rules_buf and the   *)
(* declared rule names in __all_rule_names; generate() runs the per-domain *)
(* generators in a fixed order; NinjaFileGenerator wraps it and writes the *)
(* script.  A line of the buffer is a record [k, a, d]: k is the kind of   *)
(* line ("rule", "command", "pool", "pool =", ...), a the sequence of its  *)
(* text pieces and d the depth of a pool declaration (0 elsewhere).        *)
(***************************************************************************)
EXTENDS Integers, Sequences, FiniteSets, TLC

VARIABLES
    config,            \* the configuration sections and probes read by the generators
    pc,                \* position inside generate_build_script/generate_build_rules/generate
    rules_buf,         \* _NinjaFileHeaderGenerator.rules_buf
    all_rule_names,    \* _NinjaFileHeaderGenerator.__all_rule_names
    ninja_rule_names,  \* NinjaFileGenerator.__all_rule_names
    script,            \* the file at script_path: [written, lines]
    exec               \* one execution of an emitted command by the build executor

vars == <<config, pc, rules_buf, all_rule_names, ninja_rule_names, script, exec>>

----------------------------------------------------------------------------
(* Bounds of the model *)

MaxLinkJobs == 2
MaxBuildJobs == 2
MaxCalls == 3
MaxLines == 3
MaxExit == 2

----------------------------------------------------------------------------
(* Configuration *)

build_dir == "build64_release"
blade_path == "/blade"
protoc == "protoc"
protobuf_go_path == "pbgo"
cc_cmd == "gcc"
cxx_cmd == "g++"
ld_cmd == "g++"

AllConfigs ==
    [ link_jobs_set     : BOOLEAN,
      link_jobs         : (0 - 1)..MaxLinkJobs,
      build_jobs        : 0..MaxBuildJobs,
      protoc_go_plugin  : {"", "protoc-gen-go"},
      go_home           : {"", "/go"},
      go                : {"", "go"},
      go_module_enabled : BOOLEAN,
      go_module_relpath : {"", "mod"},
      protoc_go_subplugins : {<<>>, <<"grpc", "validate">>},
      probe             : {"ok", "nonzero", "oserror"},
      profile           : {"debug", "release"} ]

\* config.get_item('link_config', 'link_jobs'): None is modelled as an unset
\* value; Python's truth test treats None and 0 alike.
Truthy(s) == s # ""
LinkJobsTruthy(c) == c.link_jobs_set /\ c.link_jobs # 0

DefaultConfig ==
    [ link_jobs_set |-> FALSE, link_jobs |-> 0, build_jobs |-> 1,
      protoc_go_plugin |-> "", go_home |-> "", go |-> "",
      go_module_enabled |-> FALSE, go_module_relpath |-> "",
      protoc_go_subplugins |-> <<>>,
      probe |-> "ok", profile |-> "debug" ]

\* an unset link_jobs carries no number; sub-plugins matter only with a plugin
Configs ==
    { c \in AllConfigs : /\ (~c.link_jobs_set => c.link_jobs = 0)
                         /\ (c.protoc_go_plugin = "" => c.protoc_go_subplugins = <<>>) }

----------------------------------------------------------------------------
(* The rule registry *)

Entry(k, a, d) == [k |-> k, a |-> a, d |-> d]

\* _add_rule: append one piece of text to the buffer
add_rule_front(buf, entry) == <<entry>> \o buf

add_rule(buf, entry) == Append(buf, entry)

OptLine(cond, k, a) == IF cond THEN <<Entry(k, a, 0)>> ELSE <<>>

colored(description) == <<"dimpurple", description>>

\* generate_rule on the registry g = [buf, names]; "" and FALSE stand for the
\* defaults None and False, command is a sequence of text pieces.
generate_rule(g, name, command, description, depfile, generator, pool, restat, rspfile, rspfile_content, deps) ==
    [ names |-> g.names \cup {name},
      buf |-> g.buf
                 \o <<Entry("rule", <<name>>, 0)>>
                 \o <<Entry("command", command, 0)>>
                 \o OptLine(Truthy(description), "description", colored(description))
                 \o OptLine(Truthy(depfile), "depfile", <<depfile>>)
                 \o OptLine(generator, "generator", <<"1">>)
                 \o OptLine(Truthy(pool), "pool =", <<pool>>)
                 \o OptLine(restat, "restat", <<"1">>)
                 \o OptLine(Truthy(rspfile), "rspfile", <<rspfile>>)
                 \o OptLine(Truthy(rspfile_content), "rspfile_content", <<rspfile_content>>)
                 \o OptLine(Truthy(deps), "deps", <<deps>>)
                 \o <<Entry("", <<>>, 0)>> ]

\* the common call shapes of generate_rule
Rule(g, name, command, description) ==
    generate_rule(g, name, command, description, "", FALSE, "", FALSE, "", "", "")
RulePool(g, name, command, description, pool) ==
    generate_rule(g, name, command, description, "", FALSE, pool, FALSE, "", "", "")
RuleRestat(g, name, command, description) ==
    generate_rule(g, name, command, description, "", FALSE, "", TRUE, "", "", "")
RuleDep(g, name, command, description, depfile, deps) ==
    generate_rule(g, name, command, description, depfile, FALSE, "", FALSE, "", "", deps)

Text(g, a) == [g EXCEPT !.buf = add_rule(g.buf, Entry("text", a, 0))]
Pool(g, name, depth) == [g EXCEPT !.buf = add_rule(g.buf, Entry("pool", <<name>>, depth))]
Build(g, a) == [g EXCEPT !.buf = add_rule(g.buf, Entry("build", a, 0))]

\* _builtin_command
builtin_command(builder, suffix) ==
    <<"PYTHONPATH=" \o blade_path \o ":$$PYTHONPATH",
      "python -m blade.builtin_tools " \o builder,
      IF Truthy(suffix) THEN suffix ELSE "${out} ${in}">>

G == [buf |-> rules_buf, names |-> all_rule_names]

----------------------------------------------------------------------------
(* generate_file_header, generate_common_rules *)

file_header(g) ==
    Pool(Text(g, <<"# build.ninja generated by blade", "ninja_required_version = 1.7",
                   "builddir = " \o build_dir>>),
         "heavy_pool", 1)

common_rules(g) == Rule(g, "copy", <<"cp -f ${in} ${out}">>, "COPY ${in} ${out}")

----------------------------------------------------------------------------
(* generate_cc_rules *)

\* build_toolchain.filter_cc_flags keeps the flags the compiler accepts
rejected_flags == {"-Wno-unknown-option"}
filter_cc_flags(flags) == SelectSeq(flags, LAMBDA f : f \notin rejected_flags)

cc_warnings == <<"-Wall", "-Wextra", "-Wno-unknown-option">>
cc_cxx_warnings == <<"-Wnon-virtual-dtor">>
cc_c_warnings == <<"-Werror-implicit-function-declaration">>
cc_optimize == <<"-O2">>

\* _get_cc_flags: (cppflags, linkflags); options.m, gprof and coverage unset
get_cc_flags_no_profile(c) ==
    [ cppflags |-> filter_cc_flags(
                      <<"-pipe", "-fno-omit-frame-pointer", "-g">>
                      \o <<"-D_FILE_OFFSET_BITS=64", "-D__STDC_CONSTANT_MACROS",
                            "-D__STDC_FORMAT_MACROS", "-D__STDC_LIMIT_MACROS">>),
      linkflags |-> <<>> ]

get_cc_flags(c) ==
    [ cppflags |-> filter_cc_flags(
                      <<"-pipe", "-fno-omit-frame-pointer", "-g">>
                      \o (IF c.profile = "debug" THEN <<"-fstack-protector">>
                          ELSE IF c.profile = "release" THEN <<"-DNDEBUG">> ELSE <<>>)
                      \o <<"-D_FILE_OFFSET_BITS=64", "-D__STDC_CONSTANT_MACROS",
                            "-D__STDC_FORMAT_MACROS", "-D__STDC_LIMIT_MACROS">>),
      linkflags |-> <<>> ]

\* _get_warning_flags and generate_cc_vars: one block of four variables
generate_cc_vars(g, c) ==
    LET warnings == filter_cc_flags(cc_warnings)
        cxx_warnings == filter_cc_flags(cc_cxx_warnings) \o warnings
        c_warnings == filter_cc_flags(cc_c_warnings) \o warnings
        optimize == IF c.profile = "release" THEN "$optimize_flags" ELSE ""
    IN  Text(g, <<"c_warnings =">> \o c_warnings \o <<"cxx_warnings =">> \o cxx_warnings
                 \o <<"optimize_flags =">> \o cc_optimize \o <<"optimize =", optimize>>)

\* _hdrs_command: the fast attempt, "||", the full attempt
hdrs_command_and(cc, flags, cppflags, includes) ==
    LET args == <<"-o /dev/null -E -H">> \o flags \o cppflags
                \o <<"-w ${cppflags}", includes, "${includes} ${in}", "2>${out}">>
    IN  (<<cc, "-fdirectives-only">> \o args) \o <<"&&">> \o (<<cc>> \o args)

hdrs_command(cc, flags, cppflags, includes) ==
    LET args == <<"-o /dev/null -E -H">> \o flags \o cppflags
                \o <<"-w ${cppflags}", includes, "${includes} ${in}", "2>${out}">>
    IN  (<<cc, "-fdirectives-only">> \o args) \o <<"||">> \o (<<cc>> \o args)

awk_script ==
    "'BEGIN {stop=0} /^Multiple include guards may be useful for:/ {stop=1} !stop {if ($$1 ~/^\\.+$$/) print $$0; else print $$0 > \"/dev/stderr\"}'"

\* _shell_support_pipefail: subprocess.call(...) == 0; a shell that cannot be
\* started makes subprocess.call raise OSError
probe_raises(c) == c.probe = "oserror"
shell_support_pipefail(c) == c.probe = "ok"

\* the command template of the cc and cxx rules applied to a compile command
template(c, cmd) ==
    IF shell_support_pipefail(c)
    THEN <<"set -o pipefail", "&&">> \o cmd \o <<"-H", "2>&1", "|", "awk", awk_script, ">${out}.H">>
    ELSE cmd \o <<"-H", "2>${out}.err", "&&", "awk", awk_script, "<${out}.err", ">${out}.H",
                  "&&", "rm -f ${out}.err">>

cc_includes == "-I. -I" \o build_dir

compile_command(cc, flags, cppflags, warnings_var) ==
    <<cc, "-o ${out} -MMD -MF ${out}.d -c -fPIC">> \o flags \o cppflags
      \o <<"${optimize}", warnings_var, "${cppflags}", cc_includes, "${includes} ${in}">>

\* generate_cc_rules from the cc rule to the ar rule
cc_compile_rules(g, c) ==
    LET cppflags == get_cc_flags(c).cppflags
        g1 == RuleDep(g, "cc", template(c, compile_command(cc_cmd, <<>>, cppflags, "${c_warnings}")),
                      "CC ${in}", "${out}.d", "gcc")
        g2 == RuleDep(g1, "cxx", template(c, compile_command(cxx_cmd, <<>>, cppflags, "${cxx_warnings}")),
                      "CXX ${in}", "${out}.d", "gcc")
        g3 == Rule(g2, "securecccompile",
                   <<"securecc " \o cxx_cmd, "-o ${out} -c -fPIC">> \o cppflags
                     \o <<"${optimize} ${cxx_warnings} ${cppflags}", cc_includes, "${includes} ${in}">>,
                   "SECURECC ${in}")
        g4 == RuleRestat(g3, "securecc", builtin_command("securecc_object", ""), "SECURECC ${in}")
    IN  Rule(g4, "ar", <<"rm -f $out; ar rcs $out $in">>, "AR ${out}")

\* min(link_jobs, self.blade.build_jobs_num())
MinFirst(a, b) == a

Min(a, b) == IF a <= b THEN a ELSE b

\* generate_cc_rules from the link_jobs lookup to the strip rule
cc_link_rules_late_pool(g, c) ==
    LET set == LinkJobsTruthy(c)
        pool == IF set THEN "link_pool" ELSE ""
        g1 == RulePool(g, "link", <<ld_cmd, "-o ${out}", "${ldflags} ${in} ${extra_ldflags}">>,
                       "LINK ${out}", pool)
        g2 == RulePool(g1, "solink", <<ld_cmd, "-o ${out} -shared", "${ldflags} ${in} ${extra_ldflags}">>,
                       "SHAREDLINK ${out}", pool)
        g3 == IF set THEN Pool(g2, "link_pool", Min(c.link_jobs, c.build_jobs)) ELSE g2
    IN  Rule(g3, "strip", <<"strip --strip-unneeded -o ${out} ${in}">>, "STRIP ${out}")

cc_link_rules(g, c) ==
    LET set == LinkJobsTruthy(c)
        pool == IF set THEN "link_pool" ELSE ""
        g0 == IF set THEN Pool(g, "link_pool", Min(c.link_jobs, c.build_jobs)) ELSE g
        g1 == RulePool(g0, "link", <<ld_cmd, "-o ${out}", "${ldflags} ${in} ${extra_ldflags}">>,
                       "LINK ${out}", pool)
        g2 == RulePool(g1, "solink", <<ld_cmd, "-o ${out} -shared", "${ldflags} ${in} ${extra_ldflags}">>,
                       "SHAREDLINK ${out}", pool)
    IN  Rule(g2, "strip", <<"strip --strip-unneeded -o ${out} ${in}">>, "STRIP ${out}")

----------------------------------------------------------------------------
(* generate_proto_rules *)

protobuf_incs == "-I=thirdparty"

\* '+'.join(items)
RECURSIVE JoinPlus(_)
JoinPlus(items) ==
    IF items = <<>> THEN ""
    ELSE IF Len(items) = 1 THEN items[1]
    ELSE items[1] \o "+" \o JoinPlus(Tail(items))

\* os.path.join(a, b); the commands' backquoted dirname is written $(dirname x) below
path_join(a, b) == a \o "/" \o b

\* the four rules every configuration gets
proto_base_rules(g) ==
    LET g0 == Text(g, <<"protocflags =", "protoccpppluginflags =",
                        "protocjavapluginflags =", "protocpythonpluginflags =">>)
        g1 == Rule(g0, "proto",
                   <<protoc, "--proto_path=.", protobuf_incs, "-I=$(dirname ${in})",
                     "--cpp_out=" \o build_dir, "${protocflags} ${protoccpppluginflags} ${in}">>,
                   "PROTOC ${in}")
        g2 == Rule(g1, "protojava",
                   <<protoc, "--proto_path=.", protobuf_incs,
                     "--java_out=" \o build_dir \o "/$(dirname ${in})",
                     "${protocjavapluginflags} ${in}">>,
                   "PROTOCJAVA ${in}")
        g3 == Rule(g2, "protopython",
                   <<protoc, "--proto_path=.", protobuf_incs, "-I=$(dirname ${in})",
                     "--python_out=" \o build_dir, "${protocpythonpluginflags} ${in}">>,
                   "PROTOCPYTHON ${in}")
    IN  Rule(g3, "protodescriptors",
             <<protoc, "--proto_path=.", protobuf_incs, "-I=$(dirname ${first})",
               "--descriptor_set_out=${out} --include_imports --include_source_info ${in}">>,
             "PROTODESCRIPTORS ${in}")

\* the output directory of the Go protobuf rule
protogo_outdir_swapped(c) ==
    IF c.go_module_enabled /\ Truthy(c.go_module_relpath)
    THEN protobuf_go_path
    ELSE path_join(c.go_home, "src")

protogo_outdir(c) ==
    IF c.go_module_enabled /\ ~Truthy(c.go_module_relpath)
    THEN protobuf_go_path
    ELSE path_join(c.go_home, "src")

\* the value of --go_out: the sub-plugins joined with "+", ":", the directory
protogo_go_out(c) ==
    IF c.protoc_go_subplugins # <<>>
    THEN "plugins=" \o JoinPlus(c.protoc_go_subplugins) \o ":" \o protogo_outdir(c)
    ELSE protogo_outdir(c)

protogo_rule(g, c) ==
    Rule(g, "protogo",
         <<protoc, "--proto_path=.", protobuf_incs, "-I=$(dirname ${in})",
           "--plugin=protoc-gen-go=" \o c.protoc_go_plugin,
           "--go_out=" \o protogo_go_out(c), "${in}">>,
         "PROTOCGOLANG ${in}")

\* "if not go_home:" under "if protoc_go_plugin:"
proto_fatal(c) == Truthy(c.protoc_go_plugin) /\ ~Truthy(c.go_home)

\* console.fatal: report the message and leave the process; nothing runs after it
console_fatal == "fatal"

----------------------------------------------------------------------------
(* generate_resource_rules ... generate_python_rules *)

resource_rules(g) ==
    LET g1 == Rule(g, "resource_index",
                   builtin_command("resource_index", "${name} ${path} ${out} ${in}"),
                   "RESOURCE INDEX ${out}")
    IN  Rule(g1, "resource",
             <<"xxd -i ${in} | sed -e \"s/^unsigned char /const char RESOURCE_/g\" -e \"s/^unsigned int /const unsigned int RESOURCE_/g\" > ${out}">>,
             "RESOURCE ${in}")

\* get_java_command with java_home unset: the bare command name
get_java_command(cmd) == cmd

java_scala_rules(g) ==
    LET g0 == Text(g, <<"source_encoding = UTF-8", "classpath = .", "javacflags =">>)
        g1 == Rule(g0, "javac",
                   <<"rm -fr ${classes_dir} && mkdir -p ${classes_dir} &&",
                     get_java_command("javac"),
                     "-encoding ${source_encoding} -d ${classes_dir} -classpath ${classpath} ${javacflags} ${in}",
                     "&& sleep 0.01 &&", get_java_command("jar"), "cf ${out} -C ${classes_dir} .">>,
                   "JAVAC ${out}")
        g2 == Rule(g1, "javaresource", builtin_command("java_resource", ""), "JAVA RESOURCE ${in}")
        g3 == Rule(g2, "javajar",
                   builtin_command("java_jar", get_java_command("jar") \o " ${out} ${in}"),
                   "JAVA JAR ${out}")
        g4 == Rule(g3, "javatest",
                   builtin_command("java_test",
                       "--script=${out} --main_class=${mainclass} --jacocoagent= --packages_under_test=${packages_under_test} ${in}"),
                   "JAVA TEST ${out}")
        g5 == Rule(g4, "fatjar", builtin_command("java_fatjar", ""), "FAT JAR ${out}")
        g6 == Rule(g5, "onejar",
                   builtin_command("java_onejar",
                       "--onejar=${out} --bootjar= --main_class=${mainclass} ${in}"),
                   "ONE JAR ${out}")
        g7 == Rule(g6, "javabinary", builtin_command("java_binary", ""), "JAVA BIN ${out}")
        g8 == Text(g7, <<"scalacflags = -nowarn">>)
        g9 == Rule(g8, "scalac",
                   <<"JAVACMD=" \o get_java_command("java"), "scalac",
                     "-encoding UTF8 -d ${out} -classpath ${classpath} ${scalacflags} ${in}">>,
                   "SCALAC ${out}")
    IN  Rule(g9, "scalatest",
             builtin_command("scala_test",
                 "--java=java --scala=scala --jacocoagent= --packages_under_test=${packages_under_test} --script=${out} ${in}"),
             "SCALA TEST ${out}")

thrift_rules(g) ==
    Rule(g, "thrift",
         <<"thrift", "--gen", "-I .", "-I $(dirname ${in})",
           "-out " \o build_dir \o "/$(dirname ${in}) ${in}">>,
         "THRIFT ${in}")

python_rules(g) ==
    LET g1 == Rule(g, "pythonlibrary",
                   builtin_command("python_library", "--basedir=${basedir} --pylib=${out} ${in}"),
                   "PYTHON LIBRARY ${out}")
    IN  Rule(g1, "pythonbinary",
             builtin_command("python_binary",
                 "--basedir=${basedir} --exclusions=${exclusions} --mainentry=${mainentry} --pybin=${out} ${in}"),
             "PYTHON BINARY ${out}")

----------------------------------------------------------------------------
(* generate_go_rules ... generate_version_rules *)

\* os.path.relpath(path, start) for a start directory one level below "."
relpath(path, start) == IF path = "./" THEN ".." ELSE "../" \o path

go_prefix(c) ==
    IF c.go_module_enabled
    THEN IF Truthy(c.go_module_relpath)
         THEN "cd " \o c.go_module_relpath \o " && " \o relpath(c.go, c.go_module_relpath)
         ELSE c.go
    ELSE "GOPATH=" \o c.go_home \o " " \o c.go

go_out_relative(c) ==
    IF c.go_module_enabled /\ Truthy(c.go_module_relpath)
    THEN path_join(relpath("./", c.go_module_relpath), "")
    ELSE ""

go_active_either(c) == Truthy(c.go_home) \/ Truthy(c.go)

go_active(c) == Truthy(c.go_home) /\ Truthy(c.go)

go_rules_depth_from_jobs(g, c) ==
    IF go_active(c)
    THEN LET g0 == Pool(g, "golang_pool", c.build_jobs)
             g1 == RulePool(g0, "gopackage",
                            <<go_prefix(c), "install ${extra_goflags} ${package}">>,
                            "GO INSTALL ${package}", "golang_pool")
             g2 == RulePool(g1, "gocommand",
                            <<go_prefix(c), "build -o", go_out_relative(c) \o "${out}",
                              "${extra_goflags} ${package}">>,
                            "GO BUILD ${package}", "golang_pool")
         IN  RulePool(g2, "gotest",
                      <<go_prefix(c), "test -c -o", go_out_relative(c) \o "${out}",
                        "${extra_goflags} ${package}">>,
                      "GO TEST ${package}", "golang_pool")
    ELSE g

go_rules(g, c) ==
    IF go_active(c)
    THEN LET g0 == Pool(g, "golang_pool", 1)
             g1 == RulePool(g0, "gopackage",
                            <<go_prefix(c), "install ${extra_goflags} ${package}">>,
                            "GO INSTALL ${package}", "golang_pool")
             g2 == RulePool(g1, "gocommand",
                            <<go_prefix(c), "build -o", go_out_relative(c) \o "${out}",
                              "${extra_goflags} ${package}">>,
                            "GO BUILD ${package}", "golang_pool")
         IN  RulePool(g2, "gotest",
                      <<go_prefix(c), "test -c -o", go_out_relative(c) \o "${out}",
                        "${extra_goflags} ${package}">>,
                      "GO TEST ${package}", "golang_pool")
    ELSE g

shell_rules(g) ==
    LET g1 == Rule(g, "shelltest", builtin_command("shell_test", ""), "SHELL TEST ${out}")
    IN  Rule(g1, "shelltestdata",
             builtin_command("shell_testdata", "${out} ${in} ${testdata}"),
             "SHELL TEST DATA ${out}")

lex_yacc_rules(g) ==
    LET g1 == Rule(g, "lex", <<"flex ${lexflags} -o ${out} ${in}">>, "LEX ${in}")
    IN  Rule(g1, "yacc", <<"bison ${yaccflags} -o ${out} ${in}">>, "YACC ${in}")

package_rules(g) ==
    LET g1 == Rule(g, "package", builtin_command("package", "${out} ${in} ${entries}"),
                   "PACKAGE ${out}")
        g2 == Rule(g1, "package_tar",
                   <<"tar -c -f ${out} ${tarflags} -C ${packageroot} ${entries}">>,
                   "TAR ${out}")
    IN  Rule(g2, "package_zip",
             <<"cd ${packageroot} && zip -q temp_archive.zip ${entries} && cd - && mv ${packageroot}/temp_archive.zip ${out}">>,
             "ZIP ${out}")

\* a build statement: <<output, rule, inputs and variables...>>
version_rules_build_first(g, c) ==
    LET scm == path_join(build_dir, "scm.cc")
        g1 == Build(g, <<scm, "scm", "revision = r1", "url = u1",
                         "profile = " \o c.profile, "compiler = gcc 9">>)
        g2 == Rule(g1, "scm",
                   builtin_command("scm",
                       "--scm=${out} --revision=${revision} --url=${url} --profile=${profile} --compiler=\"${compiler}\""),
                   "SCM ${out}")
    IN  Build(g2, <<scm \o ".o", "cxx", scm, "cppflags = -w -O2", "cxx_warnings =">>)

version_rules(g, c) ==
    LET scm == path_join(build_dir, "scm.cc")
        g1 == Rule(g, "scm",
                   builtin_command("scm",
                       "--scm=${out} --revision=${revision} --url=${url} --profile=${profile} --compiler=\"${compiler}\""),
                   "SCM ${out}")
        g2 == Build(g1, <<scm, "scm", "revision = r1", "url = u1",
                          "profile = " \o c.profile, "compiler = gcc 9">>)
    IN  Build(g2, <<scm \o ".o", "cxx", scm, "cppflags = -w -O2", "cxx_warnings =">>)

\* blade.gen_targets_rules(): the per-target build statements; a target marked
\* heavy is assigned to heavy_pool
gen_targets_rules ==
    <<Entry("build", <<"app.o", "cxx", "app.cc">>, 0), Entry("pool =", <<"heavy_pool">>, 0)>>

----------------------------------------------------------------------------
(* One generation pass: NinjaFileGenerator.generate_build_script *)

NoExec == [phase |-> "none"]

Init ==
    /\ config \in Configs
    /\ pc = "header"
    /\ rules_buf = <<>>
    /\ all_rule_names = {}
    /\ ninja_rule_names = {}
    /\ script = [written |-> FALSE, lines |-> <<>>]
    /\ exec = NoExec

\* a generator that ran to its end: the registry after it, and the next position
Step(g, next) ==
    /\ rules_buf' = g.buf
    /\ all_rule_names' = g.names
    /\ pc' = next
    /\ UNCHANGED <<config, ninja_rule_names, script, exec>>

generate_file_header == pc = "header" /\ Step(file_header(G), "common")

generate_common_rules == pc = "common" /\ Step(common_rules(G), "cc")

\* the probe runs after generate_cc_vars has written its block
generate_cc_rules ==
    /\ pc = "cc"
    /\ IF probe_raises(config)
       THEN Step(generate_cc_vars(G, config), "error")
       ELSE Step(cc_link_rules(cc_compile_rules(generate_cc_vars(G, config), config), config),
                 "proto")

generate_proto_rules_no_abort ==
    /\ pc = "proto"
    /\ IF Truthy(config.protoc_go_plugin)
       THEN Step(protogo_rule(proto_base_rules(G), config), "resource")
       ELSE Step(proto_base_rules(G), "resource")

generate_proto_rules ==
    /\ pc = "proto"
    /\ IF Truthy(config.protoc_go_plugin)
       THEN IF proto_fatal(config)
            THEN Step(proto_base_rules(G), console_fatal)
            ELSE Step(protogo_rule(proto_base_rules(G), config), "resource")
       ELSE Step(proto_base_rules(G), "resource")

generate_resource_rules == pc = "resource" /\ Step(resource_rules(G), "java_scala")

generate_java_scala_rules == pc = "java_scala" /\ Step(java_scala_rules(G), "thrift")

generate_thrift_rules == pc = "thrift" /\ Step(thrift_rules(G), "python")

generate_python_rules == pc = "python" /\ Step(python_rules(G), "go")

generate_go_rules == pc = "go" /\ Step(go_rules(G, config), "shell")

generate_shell_rules == pc = "shell" /\ Step(shell_rules(G), "lex_yacc")

generate_lex_yacc_rules == pc = "lex_yacc" /\ Step(lex_yacc_rules(G), "package")

generate_package_rules == pc = "package" /\ Step(package_rules(G), "version")

\* the last generator; generate() then returns rules_buf
generate_version_rules == pc = "version" /\ Step(version_rules(G, config), "generated")

\* generate_build_rules after generate(): "rules += ..." extends rules_buf in
\* place, then the names are copied
generate_build_rules_no_copy ==
    /\ pc = "generated"
    /\ rules_buf' = rules_buf \o gen_targets_rules
    /\ pc' = "rules"
    /\ UNCHANGED <<config, all_rule_names, ninja_rule_names, script, exec>>

generate_build_rules ==
    /\ pc = "generated"
    /\ rules_buf' = rules_buf \o gen_targets_rules
    /\ ninja_rule_names' = all_rule_names
    /\ pc' = "rules"
    /\ UNCHANGED <<config, all_rule_names, script, exec>>

\* generate_build_script after generate_build_rules: write the script
generate_build_script ==
    /\ pc = "rules"
    /\ script' = [written |-> TRUE, lines |-> rules_buf]
    /\ pc' = "written"
    /\ UNCHANGED <<config, rules_buf, all_rule_names, ninja_rule_names, exec>>

Next ==
    \/ generate_file_header
    \/ generate_common_rules
    \/ generate_cc_rules
    \/ generate_proto_rules
    \/ generate_resource_rules
    \/ generate_java_scala_rules
    \/ generate_thrift_rules
    \/ generate_python_rules
    \/ generate_go_rules
    \/ generate_shell_rules
    \/ generate_lex_yacc_rules
    \/ generate_package_rules
    \/ generate_version_rules
    \/ generate_build_rules
    \/ generate_build_script

Spec == Init /\ [][Next]_vars

----------------------------------------------------------------------------
(* Reading the buffer *)

RuleIdx(buf, n) == {i \in DOMAIN buf : buf[i].k = "rule" /\ buf[i].a = <<n>>}
PoolIdx(buf, p) == {i \in DOMAIN buf : buf[i].k = "pool" /\ buf[i].a = <<p>>}
HasRule(buf, n) == RuleIdx(buf, n) # {}

\* the closing empty line of the block that starts at line i
BlockEnd(buf, i) ==
    CHOOSE j \in (i + 1)..Len(buf) : buf[j].k = "" /\ \A m \in (i + 1)..(j - 1) : buf[m].k # ""

\* the lines of kind k in the blocks of rule n
LinesOfRule(buf, n, k) ==
    UNION {{buf[j].a : j \in {m \in (i + 1)..BlockEnd(buf, i) : buf[m].k = k}} : i \in RuleIdx(buf, n)}

\* the pools assigned by the blocks of rule n, and the commands of those blocks
PoolsOfRule(buf, n) == {a[1] : a \in LinesOfRule(buf, n, "pool =")}
CommandsOfRule(buf, n) == LinesOfRule(buf, n, "command")

GoRuleNames == {"gopackage", "gocommand", "gotest"}
BeforeCc == {"header", "common", "cc", "error"}
BeforeGo == BeforeCc \cup {"proto", "fatal", "resource", "java_scala", "thrift", "python", "go"}

----------------------------------------------------------------------------
(* Claims about one generation pass (specification Spec) *)

\* C2: at every point of the pass, each "pool = P" line of the buffer comes
\* after a "pool P" declaration.
C2_PoolDeclaredBeforeUse ==
    \A i \in DOMAIN rules_buf :
        rules_buf[i].k = "pool =" =>
            \E j \in 1..(i - 1) : rules_buf[j].k = "pool" /\ rules_buf[j].a = rules_buf[i].a

C2_Witness ==
    /\ pc = "written"
    /\ \A p \in {"heavy_pool", "link_pool", "golang_pool"} :
          \E i \in DOMAIN script.lines : script.lines[i] = Entry("pool =", <<p>>, 0)

\* the --go_out argument for a directory, with the configured sub-plugins
GoOutArg(c, dir) ==
    IF c.protoc_go_subplugins = <<>> THEN "--go_out=" \o dir
    ELSE "--go_out=plugins=grpc+validate:" \o dir
GoOutOfProtogo(buf) == {cmd[6] : cmd \in CommandsOfRule(buf, "protogo")}

\* C5 as stated: module mode with a module-relative path set gives the
\* configured protobuf Go path, module mode disabled gives <go_home>/src.
C5_Original ==
    HasRule(rules_buf, "protogo") =>
        /\ (config.go_module_enabled /\ config.go_module_relpath # "" =>
               GoOutOfProtogo(rules_buf) = {GoOutArg(config, "pbgo")})
        /\ (~config.go_module_enabled =>
               GoOutOfProtogo(rules_buf) = {GoOutArg(config, "/go/src")})

\* C5 amended: the protobuf Go path is used exactly when module mode is
\* enabled and go_module_relpath is not set; otherwise <go_home>/src.
C5_ProtogoOutdir ==
    HasRule(rules_buf, "protogo") =>
        /\ (config.go_module_enabled /\ config.go_module_relpath = "" =>
               GoOutOfProtogo(rules_buf) = {GoOutArg(config, "pbgo")})
        /\ (config.go_module_enabled /\ config.go_module_relpath # "" =>
               GoOutOfProtogo(rules_buf) = {GoOutArg(config, "/go/src")})
        /\ (~config.go_module_enabled =>
               GoOutOfProtogo(rules_buf) = {GoOutArg(config, "/go/src")})

C5_Witness ==
    /\ HasRule(rules_buf, "protogo")
    /\ config.go_module_enabled /\ config.go_module_relpath = ""
    /\ config.protoc_go_subplugins # <<>>

ProtoBaseNames == {"proto", "protojava", "protopython", "protodescriptors"}
UpToProtoNames == {"copy", "cc", "cxx", "securecccompile", "securecc", "ar", "link", "solink", "strip"} \cup ProtoBaseNames

\* C6: with a Go protobuf plugin and no go_home the pass stops inside
\* generate_proto_rules: no protogo rule, no rule of a later generator,
\* nothing returned to NinjaFileGenerator and no script file.
C6_FatalWithoutGoHome ==
    (Truthy(config.protoc_go_plugin) /\ ~Truthy(config.go_home)) =>
        /\ pc \in {"header", "common", "cc", "error", "proto", "fatal"}
        /\ ~HasRule(rules_buf, "protogo")
        /\ all_rule_names \subseteq UpToProtoNames
        /\ \A i \in DOMAIN rules_buf : rules_buf[i].k = "rule" => rules_buf[i].a[1] \in UpToProtoNames
        /\ ninja_rule_names = {}
        /\ script = [written |-> FALSE, lines |-> <<>>]

C6_Witness ==
    /\ pc = "fatal"
    /\ ProtoBaseNames \subseteq all_rule_names

NoGoDeclarations ==
    /\ PoolIdx(rules_buf, "golang_pool") = {}
    /\ all_rule_names \cap GoRuleNames = {}
    /\ \A n \in GoRuleNames : ~HasRule(rules_buf, n)

\* C7: without go_home or without go the buffer never holds golang_pool or a
\* Go rule, and generate_go_rules changes neither the buffer nor the set of
\* names and hands over to generate_shell_rules.
C7_GoRulesNoOp ==
    /\ [](~(Truthy(config.go_home) /\ Truthy(config.go)) => NoGoDeclarations)
    /\ [][(pc = "go" /\ ~(Truthy(config.go_home) /\ Truthy(config.go))) =>
             (rules_buf' = rules_buf /\ all_rule_names' = all_rule_names /\ pc' = "shell")]_vars

C7_Witness ==
    /\ pc = "written"
    /\ Truthy(config.go_home) /\ ~Truthy(config.go)
    /\ HasRule(script.lines, "shelltest") /\ ~HasRule(script.lines, "gotest")

\* C8: once generate_cc_rules has run, a truthy link_jobs gives exactly one
\* link_pool of depth min(link_jobs, build jobs) to which link and solink are
\* assigned; otherwise there is no link_pool and link and solink have no pool.
C8_LinkPool ==
    IF pc \in BeforeCc THEN PoolIdx(rules_buf, "link_pool") = {}
    ELSE IF config.link_jobs_set /\ config.link_jobs # 0
    THEN /\ Cardinality(PoolIdx(rules_buf, "link_pool")) = 1
         /\ \A i \in PoolIdx(rules_buf, "link_pool") :
               /\ rules_buf[i].d <= config.link_jobs
               /\ rules_buf[i].d <= config.build_jobs
               /\ rules_buf[i].d \in {config.link_jobs, config.build_jobs}
         /\ PoolsOfRule(rules_buf, "link") = {"link_pool"}
         /\ PoolsOfRule(rules_buf, "solink") = {"link_pool"}
    ELSE /\ PoolIdx(rules_buf, "link_pool") = {}
         /\ HasRule(rules_buf, "link") /\ HasRule(rules_buf, "solink")
         /\ PoolsOfRule(rules_buf, "link") = {}
         /\ PoolsOfRule(rules_buf, "solink") = {}

C8_Witness ==
    /\ pc = "written"
    /\ config.link_jobs_set /\ config.link_jobs = 2 /\ config.build_jobs = 1
    /\ script.lines[Len(script.lines)].k = "pool ="
    /\ \E i \in DOMAIN script.lines : script.lines[i] = Entry("pool", <<"link_pool">>, 1)

PortableCc == template([DefaultConfig EXCEPT !.probe = "nonzero"], compile_command(cc_cmd, <<>>, get_cc_flags(config).cppflags, "${c_warnings}"))
PortableCxx == template([DefaultConfig EXCEPT !.probe = "nonzero"], compile_command(cxx_cmd, <<>>, get_cc_flags(config).cppflags, "${cxx_warnings}"))

\* C9: a probe that does not report support, a probe that cannot be started
\* included, never stops the pass: generate_cc_rules completes and emits cc
\* and cxx with the temp-file template.
C9_ProbeFailureIsUnsupported ==
    /\ pc # "error"
    /\ (config.probe # "ok" /\ pc \notin BeforeCc) =>
          /\ CommandsOfRule(rules_buf, "cc") = {PortableCc}
          /\ CommandsOfRule(rules_buf, "cxx") = {PortableCxx}

----------------------------------------------------------------------------
(* Direct use of the registry: generate_rule called with any name *)

ApiNames == {"copy", "cc", "link"}

InitRegistry ==
    /\ config = DefaultConfig
    /\ pc = "api"
    /\ rules_buf = <<>>
    /\ all_rule_names = {}
    /\ ninja_rule_names = {}
    /\ script = [written |-> FALSE, lines |-> <<>>]
    /\ exec = NoExec

NumBlocks(buf) == Cardinality({i \in DOMAIN buf : buf[i].k = "rule"})

call_generate_rule ==
    /\ pc = "api"
    /\ NumBlocks(rules_buf) < MaxCalls
    /\ \E name \in ApiNames, pool \in {"", "heavy_pool"}, restat \in BOOLEAN :
          Step(generate_rule(G, name, <<"cmd">>, "", "", FALSE, pool, restat, "", "", ""), "api")

NextRegistry == call_generate_rule

SpecRegistry == InitRegistry /\ [][NextRegistry]_vars

\* C1: a name is declared at most once in a pass: a second generate_rule with
\* the same name fails, so the buffer never holds two "rule <name>" blocks.
C1_DuplicateRuleFails ==
    \A n \in ApiNames : Cardinality(RuleIdx(rules_buf, n)) <= 1

----------------------------------------------------------------------------
(* Running an emitted command: the shell, the compiler and awk *)

\* A line of compiler output is a sequence of characters; SENT stands for the
\* text "Multiple include guards may be useful for:".
SENT == "Multiple include guards may be useful for:"
DiagLines ==
    { <<".", " ", "x">>,          \* an include-stack line: dots, blank, path
      <<".", ".", " ", "x">>,     \* the same, one level deeper
      <<".", "/", "x">>,          \* a diagnostic that names the file ./x
      <<" ", ".", " ", "x">>,     \* dots after a leading blank
      <<"x", " ", ".">>,          \* any other diagnostic
      <<SENT>>,                   \* the sentinel line
      <<SENT, " ", "x">> }        \* a line that begins with the sentinel text

RECURSIVE SeqsUpTo(_, _)
SeqsUpTo(S, n) ==
    IF n = 0 THEN {<<>>}
    ELSE LET shorter == SeqsUpTo(S, n - 1)
         IN  shorter \cup {Append(q, x) : q \in shorter, x \in S}

Blank(ch) == ch = " "

\* awk's $1: the first run of non-blank characters
RECURSIVE SkipBlanks(_)
SkipBlanks(line) ==
    IF line # <<>> /\ Blank(Head(line)) THEN SkipBlanks(Tail(line)) ELSE line
RECURSIVE TakeField(_)
TakeField(line) ==
    IF line = <<>> \/ Blank(Head(line)) THEN <<>>
    ELSE <<Head(line)>> \o TakeField(Tail(line))
Field1(line) == TakeField(SkipBlanks(line))

\* $1 ~ /^\.+$/
IsDotsPrefix(field) == field # <<>> /\ field[1] = "."

IsDots(field) == field # <<>> /\ \A i \in DOMAIN field : field[i] = "."

\* /^Multiple include guards may be useful for:/
MatchesSentinel(line) == line # <<>> /\ line[1] = SENT

\* awk_script over its input: the lines printed and the lines sent to
\* /dev/stderr; stop is the script's variable
RECURSIVE AwkFrom(_, _, _)
AwkFrom(lines, stop, acc) ==
    IF lines = <<>> THEN acc
    ELSE LET line == Head(lines)
             stop1 == stop \/ MatchesSentinel(line)
             acc1 == IF stop1 THEN acc
                     ELSE IF IsDots(Field1(line))
                     THEN [acc EXCEPT !.printed = Append(@, line)]
                     ELSE [acc EXCEPT !.stderr = Append(@, line)]
         IN  AwkFrom(Tail(lines), stop1, acc1)

AwkScript(lines) == AwkFrom(lines, FALSE, [printed |-> <<>>, stderr |-> <<>>])

Has(toks, t) == \E i \in DOMAIN toks : toks[i] = t

\* the state of one "sh -c command": the last exit status, the pipefail
\* option, the files ${out}.err, ${out}.H and ${out}, the lines shown to the
\* user and the compiler runs made
ShellStart ==
    [ status |-> 0, pipefail |-> FALSE,
      err_exists |-> FALSE, err |-> <<>>,
      H_exists |-> FALSE, H |-> <<>>,
      out |-> <<>>, user |-> <<>>, attempts |-> <<>> ]

CompilerMode(toks) == IF Has(toks, "-fdirectives-only") THEN "fast" ELSE "full"
CompilerStatus(toks, env) == IF CompilerMode(toks) = "fast" THEN env.fast ELSE env.full

\* a compiler run outside a pipeline: its diagnostics go where "2>" points
RunCompiler(toks, st, env) ==
    LET st1 == [st EXCEPT !.status = CompilerStatus(toks, env),
                          !.attempts = Append(@, CompilerMode(toks))]
    IN  IF Has(toks, "2>${out}.err") THEN [st1 EXCEPT !.err_exists = TRUE, !.err = env.diag]
        ELSE IF Has(toks, "2>${out}") THEN [st1 EXCEPT !.out = env.diag]
        ELSE [st1 EXCEPT !.user = @ \o env.diag]

\* awk over an input: ">${out}.H" receives what it prints
RunAwk(toks, input, st) ==
    LET r == AwkScript(input)
        st1 == [st EXCEPT !.status = 0, !.user = @ \o r.stderr]
    IN  IF Has(toks, ">${out}.H") THEN [st1 EXCEPT !.H_exists = TRUE, !.H = r.printed]
        ELSE st1

RunSimple(toks, st, env) ==
    IF toks[1] \in {cc_cmd, cxx_cmd} THEN RunCompiler(toks, st, env)
    ELSE IF toks[1] = "awk" THEN RunAwk(toks, IF Has(toks, "<${out}.err") THEN st.err ELSE <<>>, st)
    ELSE IF toks[1] = "set -o pipefail" THEN [st EXCEPT !.status = 0, !.pipefail = TRUE]
    ELSE IF toks[1] = "rm -f ${out}.err" THEN [st EXCEPT !.status = 0, !.err_exists = FALSE, !.err = <<>>]
    ELSE [st EXCEPT !.status = 127]

BarAt(toks) == CHOOSE i \in DOMAIN toks : toks[i] = "|"

\* "compiler 2>&1 | awk": the compiler's diagnostics are awk's input; the
\* status is awk's, or with pipefail the last non-zero one
RunPipeline(toks, st, env) ==
    IF ~Has(toks, "|") THEN RunSimple(toks, st, env)
    ELSE LET left == SubSeq(toks, 1, BarAt(toks) - 1)
             right == SubSeq(toks, BarAt(toks) + 1, Len(toks))
             cstatus == CompilerStatus(left, env)
             piped == IF Has(left, "2>&1") THEN env.diag ELSE <<>>
             st1 == [st EXCEPT !.attempts = Append(@, CompilerMode(left)),
                               !.user = IF Has(left, "2>&1") THEN @ ELSE @ \o env.diag]
             st2 == RunAwk(right, piped, st1)
         IN  [st2 EXCEPT !.status = IF st.pipefail /\ st2.status = 0 THEN cstatus ELSE st2.status]

\* an and-or list: "a && b" runs b when a exits zero, "a || b" when it does not
RECURSIVE RunList(_, _, _, _, _)
RunList(toks, cur, conn, st, env) ==
    LET runs == cur # <<>> /\ (conn = "" \/ (conn = "&&" /\ st.status = 0) \/ (conn = "||" /\ st.status # 0))
        st1 == IF runs THEN RunPipeline(cur, st, env) ELSE st
    IN  IF toks = <<>> THEN st1
        ELSE IF Head(toks) \in {"&&", "||"} THEN RunList(Tail(toks), <<>>, Head(toks), st1, env)
        ELSE RunList(Tail(toks), Append(cur, Head(toks)), conn, st, env)

RunCommand(command, env) == RunList(command, <<>>, "", ShellStart, env)

\* the command of a rule as generate_cc_rules emits it for configuration c
EmittedCommand(c, rule) ==
    CHOOSE cmd \in CommandsOfRule(cc_compile_rules(generate_cc_vars([buf |-> <<>>, names |-> {}], c), c).buf, rule) : TRUE

CommandFor(c, rule) ==
    IF rule = "hdrs" THEN hdrs_command(cc_cmd, <<>>, get_cc_flags(c).cppflags, cc_includes)
    ELSE EmittedCommand(c, rule)

ExitCodes == 0..MaxExit

InitExec ==
    /\ config \in {[DefaultConfig EXCEPT !.probe = p] : p \in {"ok", "nonzero"}}
    /\ pc = "exec"
    /\ rules_buf = <<>>
    /\ all_rule_names = {}
    /\ ninja_rule_names = {}
    /\ script = [written |-> FALSE, lines |-> <<>>]
    /\ \E rule \in {"cc", "cxx", "hdrs"}, fast \in ExitCodes, full \in ExitCodes, diag \in SeqsUpTo(DiagLines, MaxLines) :
          /\ rule = "hdrs" => (config.probe = "ok" /\ Len(diag) <= 1)
          /\ rule # "hdrs" => fast = 0
          /\ exec = [phase |-> "ready", rule |-> rule, command |-> CommandFor(config, rule),
                     env |-> [fast |-> fast, full |-> full, diag |-> diag], result |-> ShellStart]

\* the executor runs a cc or cxx build statement
run_compile_rule ==
    /\ exec.phase = "ready"
    /\ exec.rule \in {"cc", "cxx"}
    /\ exec' = [exec EXCEPT !.phase = "done", !.result = RunCommand(exec.command, exec.env)]
    /\ UNCHANGED <<config, pc, rules_buf, all_rule_names, ninja_rule_names, script>>

\* the command of _hdrs_command is run
run_hdrs_command ==
    /\ exec.phase = "ready"
    /\ exec.rule = "hdrs"
    /\ exec' = [exec EXCEPT !.phase = "done", !.result = RunCommand(exec.command, exec.env)]
    /\ UNCHANGED <<config, pc, rules_buf, all_rule_names, ninja_rule_names, script>>

NextExec == run_compile_rule \/ run_hdrs_command

SpecExec == InitExec /\ [][NextExec]_vars

----------------------------------------------------------------------------
(* Claims about running the emitted commands (specification SpecExec) *)

Done == exec.phase = "done"
CompileRun == Done /\ exec.rule \in {"cc", "cxx"}
Pipefail == config.probe = "ok"

\* the lines of q before the first line that satisfies Stop(_)
BeforeFirst(q, Stop(_)) ==
    LET hits == {i \in DOMAIN q : Stop(q[i])}
    IN  IF hits = {} THEN q
        ELSE SubSeq(q, 1, (CHOOSE i \in hits : \A j \in hits : i <= j) - 1)

IsSentinelLine(line) == line = <<SENT>>
StartsWithDot(line) == line # <<>> /\ line[1] = "."
FirstFieldAllDots(line) ==
    \E a \in 1..Len(line), b \in 1..Len(line) :
        /\ a <= b
        /\ \A i \in 1..(a - 1) : line[i] = " "
        /\ \A i \in a..b : line[i] = "."
        /\ (b = Len(line) \/ line[b + 1] = " ")

\* C3 as stated: when the stream holds the sentinel line, the side file a
\* cc or cxx run wrote holds the lines before it that start with a dot.
C3_Original ==
    (CompileRun /\ exec.result.H_exists /\ \E i \in DOMAIN exec.env.diag : IsSentinelLine(exec.env.diag[i])) =>
        exec.result.H = SelectSeq(BeforeFirst(exec.env.diag, IsSentinelLine), StartsWithDot)

\* C3 amended: a cc or cxx run writes the side file unless the temp-file
\* variant's compiler fails, and the file then holds, in order, the lines
\* before the first line beginning with the sentinel text whose first
\* blank-separated field is made of dots only.
C3_SideFile ==
    CompileRun =>
        /\ exec.result.H_exists <=> (Pipefail \/ exec.env.full = 0)
        /\ exec.result.H_exists =>
              exec.result.H = SelectSeq(BeforeFirst(exec.env.diag, MatchesSentinel), FirstFieldAllDots)

C3_Witness ==
    /\ CompileRun /\ ~Pipefail /\ exec.env.full = 0
    /\ exec.env.diag = << <<" ", ".", " ", "x">>, <<SENT, " ", "x">>, <<".", " ", "x">> >>
    /\ exec.result.H = << <<" ", ".", " ", "x">> >>

HdrsRun == Done /\ exec.rule = "hdrs"

Fallback ==
    /\ exec.result.attempts # <<>> /\ exec.result.attempts[1] = "fast"
    /\ exec.env.fast # 0 =>
          (exec.result.attempts = <<"fast", "full">> /\ exec.result.status = exec.env.full)
    /\ exec.env.fast = 0 =>
          (exec.result.attempts = <<"fast">> /\ exec.result.status = 0)

\* C4 as stated: the compile command has the fast/full fallback.
C4_Original == Done => Fallback

\* C4 amended: the command of _hdrs_command has the fast/full fallback; the
\* cc and cxx rules run the compiler once, without the fast mode, and exit
\* with that run's status.
C4_Fallback ==
    /\ HdrsRun => Fallback
    /\ CompileRun => (exec.result.attempts = <<"full">> /\ exec.result.status = exec.env.full)

C4_Witness ==
    /\ HdrsRun
    /\ exec.env.fast = 1 /\ exec.env.full = 2
    /\ exec.result.attempts = <<"fast", "full">> /\ exec.result.status = 2

Observable(r) == [status |-> r.status, H_exists |-> r.H_exists, H |-> r.H, user |-> r.user]
OtherVariant == [config EXCEPT !.probe = IF Pipefail THEN "nonzero" ELSE "ok"]

\* C10: a cc or cxx run ends with the same status, side file and forwarded
\* diagnostics as the other variant's command would on the same compiler
\* status and output; a failing compiler fails the rule and its diagnostics
\* reach the user.
C10_VariantsEquivalent ==
    CompileRun =>
        /\ Observable(exec.result) = Observable(RunCommand(EmittedCommand(OtherVariant, exec.rule), exec.env))
        /\ exec.env.full # 0 =>
              /\ exec.result.status # 0
              /\ exec.result.user = SelectSeq(BeforeFirst(exec.env.diag, MatchesSentinel), LAMBDA l : ~FirstFieldAllDots(l))

----------------------------------------------------------------------------
(* Claims about the order and the content of a whole pass (specification Spec) *)

\* the positions of generate(), in the order of its calls, and what follows
PassOrder ==
    <<"header", "common", "cc", "proto", "resource", "java_scala", "thrift", "python",
      "go", "shell", "lex_yacc", "package", "version", "generated">>
PositionOf(p) == CHOOSE i \in DOMAIN PassOrder : PassOrder[i] = p

\* the generator that declares a name, as its position in PassOrder
GeneratorOfName(n) ==
    CASE n \in {"heavy_pool"} -> 1
      [] n \in {"copy"} -> 2
      [] n \in {"cc", "cxx", "securecccompile", "securecc", "ar", "link_pool", "link", "solink", "strip"} -> 3
      [] n \in {"proto", "protojava", "protopython", "protodescriptors", "protogo"} -> 4
      [] n \in {"resource_index", "resource"} -> 5
      [] n \in {"javac", "javaresource", "javajar", "javatest", "fatjar", "onejar", "javabinary", "scalac", "scalatest"} -> 6
      [] n \in {"thrift"} -> 7
      [] n \in {"pythonlibrary", "pythonbinary"} -> 8
      [] n \in {"golang_pool", "gopackage", "gocommand", "gotest"} -> 9
      [] n \in {"shelltest", "shelltestdata"} -> 10
      [] n \in {"lex", "yacc"} -> 11
      [] n \in {"package", "package_tar", "package_zip"} -> 12
      [] n \in {"scm"} -> 13
      [] OTHER -> 0

IsDeclaration(e) == e.k \in {"rule", "pool"}
DeclaredGenerators(buf) ==
    LET decls == SelectSeq(buf, IsDeclaration)
    IN  [i \in DOMAIN decls |-> GeneratorOfName(decls[i].a[1])]

IsPrefix(p, q) == Len(p) <= Len(q) /\ SubSeq(q, 1, Len(p)) = p

\* C11: the generators run in the fixed order of generate(), each leaves the
\* text emitted so far as a prefix of the buffer, and in the buffer the
\* declarations of an earlier generator come before those of a later one.
C11_FixedOrderAppendOnly ==
    /\ [](LET r == DeclaredGenerators(rules_buf)
          IN  \A i \in DOMAIN r : r[i] >= 1 /\ (i > 1 => r[i - 1] <= r[i]))
    /\ [][/\ IsPrefix(rules_buf, rules_buf')
          /\ (pc \in {"header", "common", "cc", "proto", "resource", "java_scala", "thrift",
                       "python", "go", "shell", "lex_yacc", "package", "version"} =>
                 pc' \in {PassOrder[PositionOf(pc) + 1], "error", "fatal"})]_vars

C11_Witness ==
    /\ pc = "generated"
    /\ LET r == DeclaredGenerators(rules_buf)
       IN  {r[i] : i \in DOMAIN r} = 1..13

\* The script-level variables of a buffer, read as the executor reads them: a
\* variable is bound to the words after "name =", and "$other" in a value
\* stands for the value other has at that point (nothing if it has none).
VarNames == {"c_warnings", "cxx_warnings", "optimize_flags", "optimize"}
Words(buf) == SelectSeq(buf, LAMBDA e : e.k = "text")
IsAssignment(w) == \E n \in VarNames : w = n \o " ="
AssignmentsOf(ws, n) == {i \in DOMAIN ws : ws[i] = n \o " ="}
RawValue(ws, i) ==
    LET stop == CHOOSE j \in (i + 1)..(Len(ws) + 1) :
                    /\ j = Len(ws) + 1 \/ IsAssignment(ws[j])
                    /\ \A k \in (i + 1)..(j - 1) : ~IsAssignment(ws[k])
    IN  SubSeq(ws, i + 1, stop - 1)
RECURSIVE Expand(_, _, _)
Expand(ws, val, at) ==
    IF val = <<>> THEN <<>>
    ELSE LET w == Head(val)
             refs == {n \in VarNames : w = "$" \o n}
         IN  (IF refs = {} THEN <<w>>
              ELSE LET n == CHOOSE m \in refs : TRUE
                       before == {i \in AssignmentsOf(ws, n) : i < at}
                   IN  IF before = {} THEN <<>>
                       ELSE RawValue(ws, CHOOSE i \in before : \A k \in before : k <= i))
             \o Expand(ws, Tail(val), at)
\* the values bound to a variable in the buffer, one per assignment
ValuesOfVar(buf, n) ==
    UNION {LET ws == t.a
           IN  {Expand(ws, RawValue(ws, i), i) : i \in AssignmentsOf(ws, n)}
           : t \in {Words(buf)[x] : x \in DOMAIN Words(buf)}}

PoolDeclarations(buf) == SelectSeq(buf, LAMBDA e : e.k = "pool")

ReleaseNoLimitNoGo ==
    /\ config.profile = "release"
    /\ ~LinkJobsTruthy(config)
    /\ config.go_home = "" /\ config.go = ""

ReleaseScript(buf) ==
    /\ PoolDeclarations(buf) = <<Entry("pool", <<"heavy_pool">>, 1)>>
    /\ \A n \in GoRuleNames \cup {"protogo"} : ~HasRule(buf, n)
    /\ PoolIdx(buf, "golang_pool") = {}
    /\ ValuesOfVar(buf, "optimize") = {cc_optimize}
    /\ \A r \in {"cc", "cxx"} :
          /\ CommandsOfRule(buf, r) # {}
          /\ \A cmd \in CommandsOfRule(buf, r) : Has(cmd, "-DNDEBUG")

\* C12: with profile=release, no link-job limit and no Go toolchain, the
\* script of a completed pass declares heavy_pool with depth 1 and no other
\* pool, has no Go rule, no protogo rule and no golang_pool, binds optimize
\* to the configured optimize flags, and has -DNDEBUG in the cc and cxx
\* commands.
C12_ReleaseRoundTrip ==
    ReleaseNoLimitNoGo =>
        /\ pc \in {"generated", "rules", "written"} => ReleaseScript(rules_buf)
        /\ script.written => ReleaseScript(script.lines)

C12_Witness ==
    /\ ReleaseNoLimitNoGo
    /\ pc = "written" /\ script.written
    /\ ValuesOfVar(script.lines, "optimize") = {<<"-O2">>}

\* C13: every pool declared at any point of a pass has a depth of at least
\* one, whatever link_jobs and the build job budget are.
C13_PoolDepthAtLeastOne ==
    \A i \in DOMAIN rules_buf : rules_buf[i].k = "pool" => rules_buf[i].d >= 1

\* C14: once the Go rules of a pass with go_home and go configured are
\* generated, golang_pool is declared exactly once, with depth 1, and each of
\* gopackage, gocommand and gotest is declared and assigned to golang_pool.
C14_GolangPool ==
    (go_active(config) /\ pc \notin BeforeGo) =>
        /\ Cardinality(PoolIdx(rules_buf, "golang_pool")) = 1
        /\ \A i \in PoolIdx(rules_buf, "golang_pool") : rules_buf[i].d = 1
        /\ \A n \in GoRuleNames :
              /\ HasRule(rules_buf, n)
              /\ PoolsOfRule(rules_buf, n) = {"golang_pool"}

C14_Witness ==
    /\ go_active(config) /\ pc = "shell"
    /\ config.go_module_enabled /\ LinkJobsTruthy(config) /\ config.build_jobs = 0
    /\ PoolsOfRule(rules_buf, "gotest") = {"golang_pool"}

\* the names that have a "rule <name>" block in a buffer
DeclaredRuleNames(buf) == {buf[i].a[1] : i \in {j \in DOMAIN buf : buf[j].k = "rule"}}

\* C15: once generate_build_rules has completed, get_all_rule_names() of the
\* NinjaFileGenerator is exactly the set of names with a rule block in the
\* buffer of the pass; until then it is empty.
C15_RuleNamesAfterPass ==
    IF pc \in {"rules", "written"}
    THEN ninja_rule_names = DeclaredRuleNames(rules_buf)
    ELSE ninja_rule_names = {}

C15_Witness ==
    /\ pc = "rules"
    /\ {"copy", "cxx", "protogo", "gotest", "scm"} \subseteq ninja_rule_names
    /\ ninja_rule_names = DeclaredRuleNames(rules_buf)

\* the names of the declarations of one kind ("rule" or "pool"), in order
NamesDeclared(buf, kind) ==
    LET decls == SelectSeq(buf, LAMBDA e : e.k = kind)
    IN  [i \in DOMAIN decls |-> decls[i].a[1]]
NoRepeat(names) == Cardinality({names[i] : i \in DOMAIN names}) = Len(names)
BuildIdx(buf) == {i \in DOMAIN buf : buf[i].k = "build"}

\* C16: at every point of a pass, for every configuration, no rule name and
\* no pool name is declared twice, and every build statement names a rule
\* declared before it in the buffer.
C16_UniqueAndResolved ==
    /\ NoRepeat(NamesDeclared(rules_buf, "rule"))
    /\ NoRepeat(NamesDeclared(rules_buf, "pool"))
    /\ \A i \in BuildIdx(rules_buf) :
          \E j \in RuleIdx(rules_buf, rules_buf[i].a[2]) : j < i

C16_Witness ==
    /\ pc = "generated"
    /\ LinkJobsTruthy(config) /\ go_active(config) /\ Truthy(config.protoc_go_plugin)
    /\ {rules_buf[i].a[2] : i \in BuildIdx(rules_buf)} = {"scm", "cxx"}
    /\ Len(NamesDeclared(rules_buf, "pool")) = 3

====
